---- MODULE Spec2Model ----
(***************************************************************************)
(* QuizGenius: the upload -> extract -> options -> generate -> quiz ->     *)
(* results flow of App.tsx, the FileUpload batch validation, the text      *)
(* extraction adapter and the tolerant completion-to-quiz normalizer.      *)
(*                                                                         *)
(* Conventions.  A JavaScript string is a sequence of characters; a        *)
(* character is a one-letter TLA+ string, and a word whose letters never   *)
(* matter (an i18n message, a placeholder sentence, the text of a file) is *)
(* a single element of the sequence.  A nullable value is a sequence of    *)
(* length 0 (null / undefined) or 1 (the value).                           *)
(***************************************************************************)
EXTENDS Integers, Sequences, FiniteSets, Bags, TLC

(***************************************************************************)
(* Bounds of the model.                                                    *)
(***************************************************************************)
\* asynchronous calls (probes, renders, extractions, generations, timers) in flight
MaxTasks == 2

(***************************************************************************)
(* Program constants.                                                      *)
(***************************************************************************)
\* FileUpload.tsx: if (images.length > 5)
MaxImages == 5
\* FileUpload.tsx: if (pageCount > 15);  extractTextFromPdf(file, pageLimit = 15)
PageLimit == 15

(***************************************************************************)
(* Nullable values.                                                        *)
(***************************************************************************)
Null == <<>>
Some(x) == <<x>>
IsNull(o) == Len(o) = 0
Val(o) == o[1]

(***************************************************************************)
(* Strings.                                                                *)
(***************************************************************************)
Whitespace == {" ", "\n", "\n\n"}
UpperLetters == <<"A", "B", "C", "D", "E", "F", "G", "H", "I", "J", "K", "L", "M",
                  "N", "O", "P", "Q", "R", "S", "T", "U", "V", "W", "X", "Y", "Z">>
LowerLetters == <<"a", "b", "c", "d", "e", "f", "g", "h", "i", "j", "k", "l", "m",
                  "n", "o", "p", "q", "r", "s", "t", "u", "v", "w", "x", "y", "z">>

SetMin(S) == CHOOSE x \in S : \A y \in S : x <= y
SetMax(S) == CHOOSE x \in S : \A y \in S : x >= y

\* String.prototype.trim
Trim(s) ==
  LET keep == {i \in 1..Len(s) : s[i] \notin Whitespace}
  IN IF keep = {} THEN <<>> ELSE SubSeq(s, SetMin(keep), SetMax(keep))

\* index of an upper-case letter in the alphabet (1 for "A"), 0 for any other character
LetterIndex(c) ==
  LET hit == {i \in 1..26 : UpperLetters[i] = c}
  IN IF hit = {} THEN 0 ELSE CHOOSE i \in hit : TRUE

LowerChar(c) == IF LetterIndex(c) > 0 THEN LowerLetters[LetterIndex(c)] ELSE c
UpperChar(c) ==
  LET hit == {i \in 1..26 : LowerLetters[i] = c}
  IN IF hit = {} THEN c ELSE UpperLetters[CHOOSE i \in hit : TRUE]

\* String.prototype.toLowerCase
Lower(s) == [i \in 1..Len(s) |-> LowerChar(s[i])]

\* String.prototype.startsWith for a one-character argument
StartsWith(s, c) == Len(s) > 0 /\ s[1] = c

\* Array.prototype.filter(Boolean) over strings: drops the empty ones
RECURSIVE DropEmpty(_)
DropEmpty(ss) ==
  IF ss = <<>> THEN <<>>
  ELSE IF Head(ss) = <<>> THEN DropEmpty(Tail(ss))
  ELSE <<Head(ss)>> \o DropEmpty(Tail(ss))

\* Array.prototype.join(sep)
RECURSIVE Join(_, _)
Join(ss, sep) ==
  IF ss = <<>> THEN <<>>
  ELSE IF Len(ss) = 1 THEN ss[1]
  ELSE ss[1] \o sep \o Join(Tail(ss), sep)

sTrue == <<"T", "r", "u", "e">>
sFalse == <<"F", "a", "l", "s", "e">>
AnswersMayVary == <<"Answers may vary.">>
NoExplanation == <<"No explanation provided.">>
GeneratedQuiz == <<"Generated Quiz">>

(***************************************************************************)
(* types.ts                                                                *)
(***************************************************************************)
MultipleChoice == "MultipleChoice"
TrueFalse == "TrueFalse"
Open == "Open"
QuizType == {MultipleChoice, TrueFalse, Open}
SubjectText == "Text"
SubjectMath == "Math"
SubjectType == {SubjectText, SubjectMath}
MathQuizType == {"SimilarExercises", "ApplicationProblems"}

\* the QuizOptions values QuizOptions.tsx builds: a Text variant per quiz type, a Math
\* variant per exercise style
TextQuizOptions == [subjectType : {SubjectText}, quizType : QuizType]
MathQuizOptions == [subjectType : {SubjectMath}, mathQuizType : MathQuizType]
QuizOptionsValues == TextQuizOptions \cup MathQuizOptions

(***************************************************************************)
(* JSON values, as JSON.parse returns them.                                *)
(***************************************************************************)
JUndef == [t |-> "undef"]
JNull == [t |-> "null"]
JStr(s) == [t |-> "str", s |-> s]
JNum(n) == [t |-> "num", n |-> n]
JArr(a) == [t |-> "arr", a |-> a]
JObj(o) == [t |-> "obj", o |-> o]

\* property access: undefined for a missing key and for a value that is no object
Get(v, k) == IF v.t = "obj" /\ k \in DOMAIN v.o THEN v.o[k] ELSE JUndef
\* a ?? b
Coalesce(a, b) == IF a.t \in {"undef", "null"} THEN b ELSE a
RECURSIVE CoalesceKeys(_, _)
CoalesceKeys(v, keys) ==
  IF Len(keys) = 1 THEN Get(v, keys[1])
  ELSE Coalesce(Get(v, keys[1]), CoalesceKeys(v, Tail(keys)))

\* String(value) for the values an option list may hold
ToStr(v) ==
  CASE v.t = "str" -> v.s
    [] v.t = "num" -> <<ToString(v.n)>>
    [] v.t = "null" -> <<"null">>
    [] v.t = "undef" -> <<"undefined">>
    [] v.t = "arr" -> <<"[array]">>
    [] OTHER -> <<"[object Object]">>

isRecord(v) == v.t = "obj"

\* s.includes(sub)
Includes(s, sub) ==
  \E i \in 1..(Len(s) - Len(sub) + 1) : SubSeq(s, i, i + Len(sub) - 1) = sub

isTextQuizOptions(options) == options.subjectType = SubjectText

\* the characters of the string value of a QuizType member
EnumText(value) ==
  CASE value = MultipleChoice ->
         <<"M", "u", "l", "t", "i", "p", "l", "e", "C", "h", "o", "i", "c", "e">>
    [] value = TrueFalse -> <<"T", "r", "u", "e", "F", "a", "l", "s", "e">>
    [] value = Open -> <<"O", "p", "e", "n">>

\* s.replace(c, d) for one-character strings: the first occurrence only
ReplaceFirst(s, c, d) ==
  LET hit == {i \in 1..Len(s) : s[i] = c}
  IN IF hit = {} THEN s ELSE [s EXCEPT ![SetMin(hit)] = d]

\* the quizType tag of the request body
mapQuizType(opts) ==
  LET raw == IF "quizType" \in DOMAIN opts THEN EnumText(opts.quizType)
             ELSE <<"m", "c", "q">>
      normalized == ReplaceFirst(ReplaceFirst(Lower(raw), "-", "_"), " ", "_")
  IN IF Includes(normalized, <<"t", "r", "u", "e">>)
          \/ Includes(normalized, <<"f", "a", "l", "s", "e">>) THEN "true_false"
     ELSE IF Includes(normalized, <<"o", "p", "e", "n">>) THEN "open"
     ELSE "mcq"

getRequestedQuizType(options) ==
  IF isTextQuizOptions(options) THEN options.quizType ELSE Open

normalizeQuizType(input, fallbackType) ==
  IF input.t # "str" THEN fallbackType
  ELSE LET normalized == Lower(input.s)
       IN IF Includes(normalized, <<"t", "r", "u", "e">>)
             \/ Includes(normalized, <<"f", "a", "l", "s", "e">>) THEN TrueFalse
          ELSE IF Includes(normalized, <<"o", "p", "e", "n">>)
                  \/ Includes(normalized, <<"s", "h", "o", "r", "t">>) THEN Open
          ELSE IF fallbackType = TrueFalse THEN TrueFalse
          ELSE IF fallbackType = Open THEN Open
          ELSE MultipleChoice

(***************************************************************************)
(* A raw completion.  lines: the text, line by line, as the block parser   *)
(* reads it.  fence: the content of the first fenced block, if any.        *)
(* bare: the trimmed text, if it begins with [ or { and ends with ] or }.  *)
(* A JSON text is empty, invalid (JSON.parse throws) or a value.           *)
(***************************************************************************)
JsonEmpty == [text |-> "empty"]
JsonInvalid == [text |-> "invalid"]
JsonOf(v) == [text |-> "json", value |-> v]

extractJsonFromContent(raw) ==
  IF ~IsNull(raw.fence) THEN raw.fence
  ELSE IF ~IsNull(raw.bare) THEN raw.bare
  ELSE Null

\* normalizeAnswer reading a numeric answer as a one-based index
RECURSIVE normalizeAnswerOneBased(_, _, _)
normalizeAnswerOneBased(rawAnswer, type, options) ==
  LET has == ~IsNull(options)
      opts == IF has THEN Val(options) ELSE <<>>
      fallback == IF has /\ Len(opts) > 0 THEN opts[1]
                  ELSE IF type = Open THEN AnswersMayVary
                  ELSE <<>>
  IN
  IF rawAnswer.t = "arr" /\ Len(rawAnswer.a) > 0
    THEN normalizeAnswerOneBased(rawAnswer.a[1], type, options)
  ELSE IF rawAnswer.t = "num" /\ has /\ rawAnswer.n >= 1 /\ rawAnswer.n <= Len(opts)
    THEN opts[rawAnswer.n]
  ELSE IF rawAnswer.t = "str" THEN
    LET trimmed == Trim(rawAnswer.s)
        index == IF Len(trimmed) = 1 THEN LetterIndex(UpperChar(trimmed[1])) ELSE 0
        lower == Lower(trimmed)
    IN IF trimmed = <<>> THEN fallback
       ELSE IF type = MultipleChoice /\ has /\ index >= 1 /\ index <= Len(opts)
         THEN opts[index]
       ELSE IF type = TrueFalse /\ StartsWith(lower, "t") THEN sTrue
       ELSE IF type = TrueFalse /\ StartsWith(lower, "f") THEN sFalse
       ELSE trimmed
  ELSE IF isRecord(rawAnswer) /\ Get(rawAnswer, "text").t = "str"
    THEN Trim(Get(rawAnswer, "text").s)
  ELSE fallback

RECURSIVE normalizeAnswer(_, _, _)
normalizeAnswer(rawAnswer, type, options) ==
  LET has == ~IsNull(options)
      opts == IF has THEN Val(options) ELSE <<>>
      fallback == IF has /\ Len(opts) > 0 THEN opts[1]
                  ELSE IF type = Open THEN AnswersMayVary
                  ELSE <<>>
  IN
  IF rawAnswer.t = "arr" /\ Len(rawAnswer.a) > 0
    THEN normalizeAnswer(rawAnswer.a[1], type, options)
  ELSE IF rawAnswer.t = "num" /\ has /\ rawAnswer.n >= 0 /\ rawAnswer.n < Len(opts)
    THEN opts[rawAnswer.n + 1]
  ELSE IF rawAnswer.t = "str" THEN
    LET trimmed == Trim(rawAnswer.s)
        index == IF Len(trimmed) = 1 THEN LetterIndex(UpperChar(trimmed[1])) ELSE 0
        lower == Lower(trimmed)
    IN IF trimmed = <<>> THEN fallback
       ELSE IF type = MultipleChoice /\ has /\ index >= 1 /\ index <= Len(opts)
         THEN opts[index]
       ELSE IF type = TrueFalse /\ StartsWith(lower, "t") THEN sTrue
       ELSE IF type = TrueFalse /\ StartsWith(lower, "f") THEN sFalse
       ELSE trimmed
  ELSE IF isRecord(rawAnswer) /\ Get(rawAnswer, "text").t = "str"
    THEN Trim(Get(rawAnswer, "text").s)
  ELSE fallback

\* the order in which the keys of an object literal are written (Object.values order)
KeyOrder == <<"A", "B", "C", "D", "text", "title", "question", "questions", "options",
              "answer", "quiz", "data", "items", "type", "explanation">>
RECURSIVE ObjectValuesFrom(_, _)
ObjectValuesFrom(o, keys) ==
  IF keys = <<>> THEN <<>>
  ELSE (IF Head(keys) \in DOMAIN o THEN <<o[Head(keys)]>> ELSE <<>>)
       \o ObjectValuesFrom(o, Tail(keys))
ObjectValues(v) == ObjectValuesFrom(v.o, KeyOrder)

TrimAll(vals) == DropEmpty([i \in 1..Len(vals) |-> Trim(ToStr(vals[i]))])

normalizeOptions(rawOptions) ==
  IF rawOptions.t = "arr" THEN TrimAll(rawOptions.a)
  ELSE IF isRecord(rawOptions) THEN TrimAll(ObjectValues(rawOptions))
  ELSE <<>>

\* a Question; optionsDefined is FALSE where the options field is undefined
MkQuestion(q, hasOpts, opts, answer, explanation, type) ==
  [question |-> q, optionsDefined |-> hasOpts, options |-> opts, answer |-> answer,
   explanation |-> explanation, type |-> type]

\* the first of the aliases that holds a string, or ''
RECURSIVE FirstString(_, _)
FirstString(v, keys) ==
  IF keys = <<>> THEN <<>>
  ELSE IF Get(v, Head(keys)).t = "str" THEN Get(v, Head(keys)).s
  ELSE FirstString(v, Tail(keys))

mapJsonQuestionToQuestion(rawQuestion, fallbackType) ==
  IF ~isRecord(rawQuestion) THEN Null
  ELSE
  LET prompt == FirstString(rawQuestion, <<"question", "prompt", "stem", "text">>)
      questionText == Trim(prompt)
      type == normalizeQuizType(
                CoalesceKeys(rawQuestion, <<"type", "questionType", "format">>), fallbackType)
      hasOpts == type = MultipleChoice
      options == IF hasOpts
                   THEN normalizeOptions(CoalesceKeys(rawQuestion,
                          <<"options", "choices", "answers", "optionsList">>))
                   ELSE <<>>
      answer == normalizeAnswer(
                  CoalesceKeys(rawQuestion,
                    <<"answer", "correctAnswer", "correct", "solution", "key">>),
                  type, IF hasOpts THEN Some(options) ELSE Null)
      explanationRaw == CoalesceKeys(rawQuestion,
                          <<"explanation", "rationale", "reason", "feedback">>)
      explanation == IF explanationRaw.t = "str" THEN Trim(explanationRaw.s) ELSE <<>>
      explained == IF explanation # <<>> THEN explanation ELSE NoExplanation
  IN IF questionText = <<>> THEN Null
     ELSE IF type = MultipleChoice /\ Len(options) = 0 THEN Null
     ELSE IF type = TrueFalse /\ (answer = <<>> \/ (answer # sTrue /\ answer # sFalse))
       THEN Some(MkQuestion(questionText, TRUE, <<sTrue, sFalse>>, sTrue, explained, TrueFalse))
     ELSE Some(MkQuestion(questionText, hasOpts, options,
                 IF answer # <<>> THEN answer
                 ELSE IF type = Open THEN AnswersMayVary ELSE <<>>,
                 explained, type))

\* MapQuestions with questions.unshift in place of the order of map
RECURSIVE MapQuestionsReversed(_, _)
MapQuestionsReversed(rawQuestions, fallbackType) ==
  IF rawQuestions = <<>> THEN <<>>
  ELSE MapQuestionsReversed(Tail(rawQuestions), fallbackType)
       \o mapJsonQuestionToQuestion(Head(rawQuestions), fallbackType)

\* rawQuestions.map(mapJsonQuestionToQuestion).filter(Boolean)
RECURSIVE MapQuestions(_, _)
MapQuestions(rawQuestions, fallbackType) ==
  IF rawQuestions = <<>> THEN <<>>
  ELSE mapJsonQuestionToQuestion(Head(rawQuestions), fallbackType)
       \o MapQuestions(Tail(rawQuestions), fallbackType)

isArray(v) == v.t = "arr"

\* the title and the raw question list tryParseJsonQuiz takes from a parsed payload
ResolveTitle(parsed) ==
  LET candidatePayload == IF isRecord(Get(parsed, "quiz")) THEN Get(parsed, "quiz") ELSE parsed
      title == Get(candidatePayload, "title")
  IN IF isRecord(parsed) /\ title.t = "str" /\ Len(Trim(title.s)) > 0
       THEN Trim(title.s) ELSE GeneratedQuiz

ResolveQuestions(parsed) ==
  IF isRecord(parsed) THEN
    LET candidatePayload == IF isRecord(Get(parsed, "quiz")) THEN Get(parsed, "quiz") ELSE parsed
        first == IF isArray(Get(candidatePayload, "questions"))
                   THEN Get(candidatePayload, "questions").a
                 ELSE IF isArray(Get(candidatePayload, "items"))
                   THEN Get(candidatePayload, "items").a
                 ELSE <<>>
        dataPayload == Get(parsed, "data")
    IN IF isArray(Get(parsed, "quiz")) THEN Get(parsed, "quiz").a
       ELSE IF isRecord(dataPayload) THEN
         IF isRecord(Get(dataPayload, "quiz")) /\ isArray(Get(Get(dataPayload, "quiz"), "questions"))
           THEN Get(Get(dataPayload, "quiz"), "questions").a
         ELSE IF isArray(Get(dataPayload, "questions")) THEN Get(dataPayload, "questions").a
         ELSE first
       ELSE IF isArray(dataPayload) THEN dataPayload.a
       ELSE first
  ELSE IF isArray(parsed) THEN parsed.a
  ELSE <<>>

\* null (Null) or the Quiz
tryParseJsonQuiz(raw, options) ==
  LET fallbackType == getRequestedQuizType(options)
      jsonString == extractJsonFromContent(raw)
  IN IF IsNull(jsonString) \/ Val(jsonString).text = "empty" THEN Null
     ELSE IF Val(jsonString).text = "invalid" THEN Null
     ELSE LET parsed == Val(jsonString).value
              questions == MapQuestions(ResolveQuestions(parsed), fallbackType)
          IN IF Len(questions) = 0 THEN Null
             ELSE Some([title |-> ResolveTitle(parsed), questions |-> questions])

(***************************************************************************)
(* The fallback text-block parser.  A line is a string; the words Answer,  *)
(* Correct, Explanation and Rationale are single elements of it.           *)
(***************************************************************************)
DigitChars == {"0", "1", "2", "3", "4", "5", "6", "7", "8", "9"}
\* [:.)-]
MarkerPunct == {":", ".", ")", "-"}
\* [.)-]
OptionPunct == {".", ")", "-"}
AnswerWords == {"Answer", "answer", "ANSWER"}
CorrectWords == {"Correct", "correct", "CORRECT"}
ExplanationWords == {"Explanation", "explanation", "Rationale", "rationale"}

\* the first position from i on whose character is not in class C
RECURSIVE SkipWhile(_, _, _)
SkipWhile(s, i, C) == IF i <= Len(s) /\ s[i] \in C THEN SkipWhile(s, i + 1, C) ELSE i

From(s, i) == SubSeq(s, i, Len(s))
At(s, i, C) == i <= Len(s) /\ s[i] \in C

\* line.replace(/^(?:Q\s*\d+[:.)-]|\d+[:.)-])\s*/i, '').trim()
StripQuestionMarker(line) ==
  LET d0 == IF At(line, 1, {"Q", "q"}) THEN SkipWhile(line, 2, Whitespace) ELSE 1
      d1 == SkipWhile(line, d0, DigitChars)
  IN IF d1 > d0 /\ At(line, d1, MarkerPunct)
       THEN Trim(From(line, SkipWhile(line, d1 + 1, Whitespace)))
       ELSE Trim(line)

\* line.match(/^(?:[A-Z]|\d+)[.)-]\s*(.+)$/): Null, or the trimmed text of group 1
optionMatch(line) ==
  LET d1 == IF Len(line) > 0 /\ LetterIndex(line[1]) > 0 THEN 2
            ELSE SkipWhile(line, 1, DigitChars)
  IN IF d1 > 1 /\ At(line, d1, OptionPunct) /\ d1 < Len(line)
       THEN Some(Trim(From(line, d1 + 1)))
       ELSE Null

\* a line that begins with the keyword (after the optional prefix word and spaces),
\* one of [:.)-], optional spaces and at least one more character
KeywordMatch(line, prefixWords, words) ==
  LET k0 == IF At(line, 1, prefixWords) /\ SkipWhile(line, 2, Whitespace) > 2
              THEN SkipWhile(line, 2, Whitespace) ELSE 1
  IN IF At(line, k0, words) /\ At(line, k0 + 1, MarkerPunct) /\ k0 + 1 < Len(line)
       THEN Some(Trim(From(line, k0 + 2)))
       ELSE Null

\* line.match(/^(?:Correct\s+)?Answer[:.)-]\s*(.+)$/i)
answerMatch(line) == KeywordMatch(line, CorrectWords, AnswerWords)
\* line.match(/^(?:Explanation|Rationale)[:.)-]\s*(.+)$/i)
explanationMatch(line) == KeywordMatch(line, {}, ExplanationWords)

\* raw.split(/\n\s*\n/).map(trim).filter(Boolean), each block already split into its
\* trimmed non-empty lines: the maximal runs of non-blank lines
RECURSIVE SplitBlocks(_, _)
SplitBlocks(lines, current) ==
  IF lines = <<>> THEN (IF current = <<>> THEN <<>> ELSE <<current>>)
  ELSE IF Trim(Head(lines)) = <<>>
    THEN (IF current = <<>> THEN <<>> ELSE <<current>>) \o SplitBlocks(Tail(lines), <<>>)
  ELSE SplitBlocks(Tail(lines), Append(current, Trim(Head(lines))))

\* the scan of lines.slice(1): the accumulated [answer, explanation, optionsList]
RECURSIVE ScanLines(_, _)
ScanLines(lines, acc) ==
  IF lines = <<>> THEN acc
  ELSE LET line == Head(lines)
           next == IF ~IsNull(optionMatch(line))
                     THEN [acc EXCEPT !.optionsList = Append(@, Val(optionMatch(line)))]
                   ELSE IF ~IsNull(answerMatch(line))
                     THEN [acc EXCEPT !.answer = Val(answerMatch(line))]
                   ELSE IF ~IsNull(explanationMatch(line))
                     THEN [acc EXCEPT !.explanation = Val(explanationMatch(line))]
                   ELSE acc
       IN ScanLines(Tail(lines), next)

\* the body of blocks.forEach: no question (Null) or the question pushed
ParseBlock(lines, fallbackType) ==
  LET firstLine == StripQuestionMarker(lines[1])
      scanned == ScanLines(Tail(lines), [answer |-> <<>>, explanation |-> <<>>, optionsList |-> <<>>])
      found == scanned.optionsList
      answer1 == IF fallbackType = TrueFalse
                   THEN normalizeAnswer(JStr(scanned.answer), TrueFalse, Null)
                 ELSE IF fallbackType = MultipleChoice
                   THEN normalizeAnswer(JStr(scanned.answer), MultipleChoice, Some(found))
                 ELSE IF scanned.answer = <<>> THEN AnswersMayVary
                 ELSE scanned.answer
      optionsList == IF fallbackType = TrueFalse /\ Len(found) = 0
                       THEN <<sTrue, sFalse>> ELSE found
      reclassify == fallbackType = MultipleChoice /\ Len(optionsList) = 0
      questionType == IF reclassify THEN Open ELSE fallbackType
      answer == IF reclassify /\ answer1 = <<>> THEN AnswersMayVary ELSE answer1
  IN IF firstLine = <<>> THEN Null
     ELSE Some(MkQuestion(firstLine,
                 questionType = MultipleChoice,
                 IF questionType = MultipleChoice THEN optionsList ELSE <<>>,
                 answer,
                 IF scanned.explanation # <<>> THEN scanned.explanation ELSE NoExplanation,
                 questionType))

RECURSIVE ParseBlocks(_, _)
ParseBlocks(blocks, fallbackType) ==
  IF blocks = <<>> THEN <<>>
  ELSE ParseBlock(Head(blocks), fallbackType) \o ParseBlocks(Tail(blocks), fallbackType)

ParseErrorMessage == "Unable to parse quiz content into questions."

\* fallbackParseToQuiz without its check of questions.length === 0
fallbackParseUnchecked(raw, options) ==
  LET jsonQuiz == tryParseJsonQuiz(raw, options)
      questions == ParseBlocks(SplitBlocks(raw.lines, <<>>), getRequestedQuizType(options))
  IN IF ~IsNull(jsonQuiz) THEN [ok |-> TRUE, quiz |-> Val(jsonQuiz)]
     ELSE [ok |-> TRUE, quiz |-> [title |-> GeneratedQuiz, questions |-> questions]]

\* [ok |-> TRUE, quiz |-> the Quiz returned] or [ok |-> FALSE, message |-> the Error thrown]
fallbackParseToQuiz(raw, options) ==
  LET fallbackType == getRequestedQuizType(options)
      jsonQuiz == tryParseJsonQuiz(raw, options)
      questions == ParseBlocks(SplitBlocks(raw.lines, <<>>), fallbackType)
  IN IF ~IsNull(jsonQuiz) THEN [ok |-> TRUE, quiz |-> Val(jsonQuiz)]
     ELSE IF Len(questions) = 0 THEN [ok |-> FALSE, message |-> ParseErrorMessage]
     ELSE [ok |-> TRUE, quiz |-> [title |-> GeneratedQuiz, questions |-> questions]]

(***************************************************************************)
(* Uploaded files.  A file has a declared media type; a PDF has a page     *)
(* count.                                                                  *)
(***************************************************************************)
ImageMime == "image/png"
PdfMime == "application/pdf"
DOCX_MIME == "application/vnd.openxmlformats-officedocument.wordprocessingml.document"
OtherMime == "text/plain"

ImageFile == [type |-> ImageMime, pages |-> 0]
OtherFile == [type |-> OtherMime, pages |-> 0]
PdfFile(n) == [type |-> PdfMime, pages |-> n]
\* the selections offered to the file input: none, one and two images, a PDF within and
\* over the page limit, an image with a PDF, an image with a file of another type, and
\* one image more than the limit
Batches ==
  {<<>>, <<ImageFile>>, <<ImageFile, ImageFile>>, <<PdfFile(1)>>, <<PdfFile(PageLimit + 1)>>,
   <<ImageFile, PdfFile(1)>>, <<ImageFile, OtherFile>>, [i \in 1..(MaxImages + 1) |-> ImageFile]}

\* file.type.startsWith('image/')
isImage(f) == f.type = ImageMime
isPdf(f) == f.type = PdfMime
isDocxMime(type) == type = DOCX_MIME

isDocx(f) == isDocxMime(f.type)
\* Array.prototype.filter
Images(fs) == SelectSeq(fs, isImage)
Pdfs(fs) == SelectSeq(fs, isPdf)
Docxs(fs) == SelectSeq(fs, isDocx)

mapFileToCategory(file) ==
  IF file.type = PdfMime THEN "pdf"
  ELSE IF file.type = DOCX_MIME THEN "docx"
  ELSE "image"

(***************************************************************************)
(* State.                                                                  *)
(***************************************************************************)
VARIABLES
  step,                \* App: 'upload' | 'options' | 'quiz' | 'results' | 'loading'
  error,               \* App: string | null
  extractedText,       \* App: string | null
  quiz,                \* App: Quiz | null
  userAnswers,         \* App: Record<number, string>, keyed by zero-based question index
  currentQuizOptions,  \* App: QuizOptions | null
  subjectType,         \* App: SubjectType
  files,               \* FileUpload: File[]
  uploadError,         \* FileUpload: string | null
  tasks,               \* the asynchronous calls in flight and the pending timers (a bag)
  last                 \* the handler or continuation that ran last (history)

appVars == <<step, error, extractedText, quiz, userAnswers, currentQuizOptions, subjectType>>
vars == <<step, error, extractedText, quiz, userAnswers, currentQuizOptions, subjectType,
          files, uploadError, tasks, last>>

EmptyAnswers == [i \in {} |-> <<>>]

\* if (error)
ErrorShown(e) == ~IsNull(e) /\ Val(e) # ""

\* renderContent: what the user sees
ErrorPanelShown == step # "loading" /\ ErrorShown(error)
Rendered(s, e, which) == s = which /\ ~ErrorShown(e)
FileUploadShown == Rendered(step, error, "upload")
QuizOptionsShown == Rendered(step, error, "options") /\ ~IsNull(extractedText)
QuizDisplayShown == Rendered(step, error, "quiz") /\ ~IsNull(quiz)
QuizResultsShown == Rendered(step, error, "results") /\ ~IsNull(quiz)

(***************************************************************************)
(* Tasks: the continuations waiting for an asynchronous call or a timer.   *)
(*   fuRender  FileUpload.handleFileChange at await renderPdfToCanvas      *)
(*   fuProbe   FileUpload.handleSubmit at await getPdfPageCount            *)
(*   appProbe  App.handleFileProcessed at await getPdfPageCount            *)
(*   extract   App.handleFileProcessed at await extractTextFromUploads,    *)
(*             which is itself at the extraction of file idx               *)
(*   generate  App.handleQuizGenerate at await generateQuizAPI             *)
(*   timer     setTimeout(() => setStep(to), 500)                          *)
(* live: the FileUpload instance that started the call is still mounted.   *)
(* stale: handleRestart has run since the call started (history).          *)
(***************************************************************************)
NewTask(k, fs, subject) ==
  [k |-> k, files |-> fs, subject |-> subject, idx |-> 1, chunks |-> <<>>,
   text |-> <<>>, options |-> Null, to |-> "", live |-> TRUE, stale |-> FALSE]

TaskSet == BagToSet(tasks)
Room == BagCardinality(tasks) < MaxTasks
Add(b, t) == b (+) SetToBag({t})
Remove(b, t) == b (-) SetToBag({t})

RECURSIVE SumCounts(_, _)
SumCounts(b, S) ==
  IF S = {} THEN 0
  ELSE LET x == CHOOSE x \in S : TRUE IN b[x] + SumCounts(b, S \ {x})

\* a preview render that ends after its component is gone sets nothing: it is dropped
Unmounted(b) == [t \in {x \in DOMAIN b : x.k # "fuRender"} |-> b[t]]
Detached(t) == IF t.k = "fuProbe" THEN [t EXCEPT !.live = FALSE] ELSE t
Staled(t) == [t EXCEPT !.stale = TRUE]
\* the bag of Detached(t), and of Staled(t), for the tasks t of b
DetachAll(b) ==
  [y \in {Detached(x) : x \in DOMAIN b} |-> SumCounts(b, {x \in DOMAIN b : Detached(x) = y})]
StaleAll(b) ==
  [y \in {Staled(x) : x \in DOMAIN b} |-> SumCounts(b, {x \in DOMAIN b : Staled(x) = y})]

\* The FileUpload component keeps its state while it stays rendered; once it is not
\* rendered its state is gone, and the calls it started can no longer set it.
FileUploadAfter(nfiles, nerror, ntasks) ==
  LET shown == Rendered(step', error', "upload")
  IN /\ files' = IF shown THEN nfiles ELSE <<>>
     /\ uploadError' = IF shown THEN nerror ELSE Null
     /\ tasks' = IF shown THEN ntasks ELSE DetachAll(Unmounted(ntasks))

\* at: the position in its batch of the file a step of the extraction was about, else 0
RanAt(op, stale, at) == last' = [op |-> op, stale |-> stale, at |-> at]
Ran(op, stale) == RanAt(op, stale, 0)

(***************************************************************************)
(* The completions and responses the remote service is taken to return.    *)
(***************************************************************************)
\* a line of JSON text: none of the block parser's patterns matches it
JsonLine == <<"{json}">>
FencedRaw(preamble, jsonText) ==
  [lines |-> preamble \o << <<"[fence]">>, JsonLine, <<"[/fence]">> >>,
   fence |-> Some(jsonText), bare |-> Null]
BareRaw(jsonText) == [lines |-> <<JsonLine>>, fence |-> Null, bare |-> Some(jsonText)]
TextRaw(lines) == [lines |-> lines, fence |-> Null, bare |-> Null]
EmptyRaw == TextRaw(<<>>)

\* {"quiz":{"title":"T","questions":[{"question":"Q1","options":["A","B"],"answer":0,
\*  "explanation":"E"}]}}
ExampleQuestion ==
  JObj([question |-> JStr(<<"Q", "1">>), options |-> JArr(<<JStr(<<"A">>), JStr(<<"B">>)>>),
        answer |-> JNum(0), explanation |-> JStr(<<"E">>)])
ExampleJson == JObj([quiz |-> JObj([title |-> JStr(<<"T">>), questions |-> JArr(<<ExampleQuestion>>)])])
ExampleRaw == FencedRaw(<< <<"Here is your quiz:">> >>, JsonOf(ExampleJson))

\* two text blocks: "1. W\nAnswer: true" and "2. X\nA) Y\nB) Z\nAnswer: B"
BlocksRaw ==
  TextRaw(<< <<"1", ".", " ", "W">>, <<"Answer", ":", " ", "t", "r", "u", "e">>,
             <<>>,
             <<"2", ".", " ", "X">>, <<"A", ")", " ", "Y">>, <<"B", ")", " ", "Z">>,
             <<"Answer", ":", " ", "B">> >>)
\* a sentence of prose
ProseRaw == TextRaw(<< <<"I", " ", "cannot", " ", "help">> >>)
\* blank lines only
BlankRaw == TextRaw(<< <<" ">>, <<>> >>)
\* {"questions":[]}
NoQuestionsRaw == BareRaw(JsonOf(JObj([questions |-> JArr(<<>>)])))
\* a block whose first line is only a marker
MarkerOnlyRaw == TextRaw(<< <<"1", ".">> >>)

\* raw JSON questions:
\*   unrecognized {"question":"W","type":"true_false","answer":"yes"}
\*   short        {"question":"V","type":"true_false","answer":"f"}
\*   second       {"question":"X","options":["A","B"],"answer":1}
\*   blank        {"question":" ","answer":"A"}
\*   noText       {"question":"Z","options":["A"],"answer":{"text":" "}}
\*   math         {"question":"M","answer":"$42$"}
\*   letters      {"question":"L","options":["B","A"],"answer":"A"}
SampleQuestions ==
  [unrecognized |-> JObj([question |-> JStr(<<"W">>),
                          type |-> JStr(<<"t", "r", "u", "e", "_", "f", "a", "l", "s", "e">>),
                          answer |-> JStr(<<"y", "e", "s">>)]),
   short |-> JObj([question |-> JStr(<<"V">>),
                   type |-> JStr(<<"t", "r", "u", "e", "_", "f", "a", "l", "s", "e">>),
                   answer |-> JStr(<<"f">>)]),
   second |-> JObj([question |-> JStr(<<"X">>),
                    options |-> JArr(<<JStr(<<"A">>), JStr(<<"B">>)>>), answer |-> JNum(1)]),
   blank |-> JObj([question |-> JStr(<<" ">>), answer |-> JStr(<<"A">>)]),
   noText |-> JObj([question |-> JStr(<<"Z">>), options |-> JArr(<<JStr(<<"A">>)>>),
                    answer |-> JObj([text |-> JStr(<<" ">>)])]),
   math |-> JObj([question |-> JStr(<<"M">>), answer |-> JStr(<<"$", "4", "2", "$">>)]),
   letters |-> JObj([question |-> JStr(<<"L">>),
                     options |-> JArr(<<JStr(<<"B">>), JStr(<<"A">>)>>),
                     answer |-> JStr(<<"A">>)])]

\* the question lists of the JSON completions
QuestionLists ==
  {<<SampleQuestions.unrecognized, SampleQuestions.short>>,
   <<SampleQuestions.second, SampleQuestions.blank, ExampleQuestion>>,
   <<SampleQuestions.math, SampleQuestions.noText>>,
   <<SampleQuestions.letters, SampleQuestions.second>>}

\* {"questions":[...]}
QuestionListRaw(rawQuestions) == BareRaw(JsonOf(JObj([questions |-> JArr(rawQuestions)])))

\* payloads that match several of the shapes tryParseJsonQuiz accepts:
\*   {"title":"T","questions":[second],"data":{"questions":[math]}}
\*   {"quiz":{"title":"T","questions":[second]},"data":{"quiz":{"questions":[math]}}}
\*   {"quiz":[second],"data":[math]}
\*   {"data":{"quiz":{"questions":[second]},"questions":[math]}}
OverlappingPayloads ==
  LET first == JArr(<<SampleQuestions.second>>)
      other == JArr(<<SampleQuestions.math>>)
  IN {JObj([title |-> JStr(<<"T">>), questions |-> first, data |-> JObj([questions |-> other])]),
      JObj([quiz |-> JObj([title |-> JStr(<<"T">>), questions |-> first]),
            data |-> JObj([quiz |-> JObj([questions |-> other])])]),
      JObj([quiz |-> first, data |-> other]),
      JObj([data |-> JObj([quiz |-> JObj([questions |-> first]), questions |-> other])])}

Completions ==
  {ExampleRaw, BlocksRaw, ProseRaw, BlankRaw, NoQuestionsRaw, MarkerOnlyRaw, EmptyRaw}
  \cup {QuestionListRaw(rawQuestions) : rawQuestions \in QuestionLists}
  \cup {BareRaw(JsonOf(parsed)) : parsed \in OverlappingPayloads}
\* the completions the flow specification lets the service return
FlowCompletions == {ExampleRaw, BlocksRaw, EmptyRaw}

\* what fetch and res.json() give: a network failure, or a status and a body
UpstreamError == "upstream error"
NetworkError == "Failed to fetch"
GenerationFailed == "Generation failed"
Responses ==
  {[net |-> FALSE, ok |-> FALSE, error |-> Null, content |-> Null]}
  \cup {[net |-> TRUE, ok |-> ok, error |-> e, content |-> Null] :
          ok \in BOOLEAN, e \in {Null, Some(""), Some(UpstreamError)}}
  \cup {[net |-> TRUE, ok |-> TRUE, error |-> Null, content |-> Some(c)] : c \in FlowCompletions}

\* generateQuiz throwing "Generation failed" whatever the body says
generateQuizAPIDefaultMessage(resp) ==
  IF ~resp.net THEN [ok |-> FALSE, message |-> NetworkError]
  ELSE IF ~resp.ok \/ (~IsNull(resp.error) /\ Val(resp.error) # "")
    THEN [ok |-> FALSE, message |-> GenerationFailed]
  ELSE [ok |-> TRUE, content |-> IF IsNull(resp.content) THEN EmptyRaw ELSE Val(resp.content)]

\* src/lib/api.ts generateQuiz: [ok |-> TRUE, content |-> the string returned] or
\* [ok |-> FALSE, message |-> the message of the Error thrown]
generateQuizAPI(resp) ==
  IF ~resp.net THEN [ok |-> FALSE, message |-> NetworkError]
  ELSE IF ~resp.ok \/ (~IsNull(resp.error) /\ Val(resp.error) # "")
    THEN [ok |-> FALSE,
          message |-> IF ~IsNull(resp.error) /\ Val(resp.error) # ""
                        THEN Val(resp.error) ELSE GenerationFailed]
  ELSE [ok |-> TRUE, content |-> IF IsNull(resp.content) THEN EmptyRaw ELSE Val(resp.content)]

(***************************************************************************)
(* FileUpload.tsx                                                          *)
(***************************************************************************)
\* the message handleFileChange rejects a selection with, or Null when it accepts it
RejectionOf(selectedFiles) ==
  LET images == Len(Images(selectedFiles))
      pdfs == Len(Pdfs(selectedFiles))
      docxs == Len(Docxs(selectedFiles))
      selectedFile == selectedFiles[1]
  IN IF images > 0 /\ (pdfs > 0 \/ docxs > 0) THEN Some("errors.mixedFiles")
     ELSE IF images > MaxImages THEN Some("errors.tooManyImages")
     ELSE IF pdfs + docxs > 1 THEN Some("errors.tooManyDocuments")
     ELSE IF pdfs = 1 /\ Len(selectedFiles) > 1 THEN Some("errors.singleDocumentOnly")
     ELSE IF images > 1 THEN Null
     ELSE IF isImage(selectedFile) \/ isPdf(selectedFile) \/ isDocx(selectedFile) THEN Null
     ELSE Some("errors.unsupportedFile")

\* handleFileChange, up to its await of the PDF preview
handleFileChange(selectedFiles) ==
  /\ FileUploadShown
  /\ UNCHANGED appVars
  /\ Ran("handleFileChange", FALSE)
  /\ IF Len(selectedFiles) = 0
       THEN FileUploadAfter(<<>>, uploadError, tasks)
     ELSE IF ~IsNull(RejectionOf(selectedFiles))
       THEN FileUploadAfter(<<>>, RejectionOf(selectedFiles), tasks)
     ELSE IF Len(Images(selectedFiles)) <= 1 /\ isPdf(selectedFiles[1])
       THEN /\ Room
            /\ FileUploadAfter(selectedFiles, Null,
                               Add(tasks, NewTask("fuRender", selectedFiles, SubjectText)))
     ELSE FileUploadAfter(selectedFiles, Null, tasks)

\* handleFileChange after await renderPdfToCanvas: the preview is set, or the catch block runs
PdfRenderDone(t, rendered) ==
  /\ t.k = "fuRender"
  /\ UNCHANGED appVars
  /\ Ran("PdfRenderDone", t.stale)
  /\ IF rendered
       THEN FileUploadAfter(files, uploadError, Remove(tasks, t))
       ELSE FileUploadAfter(<<>>, Some("errors.pdfRender"), Remove(tasks, t))

(***************************************************************************)
(* App.tsx                                                                 *)
(***************************************************************************)
\* handleFileProcessed, up to its first await: the page-count probe for a PDF, else the
\* extraction
handleFileProcessed(selectedFiles, subject, otherTasks, stale) ==
  LET probe == Len(Images(selectedFiles)) = 0 /\ Len(Pdfs(selectedFiles)) > 0
      call == [NewTask(IF probe THEN "appProbe" ELSE "extract", selectedFiles, subject)
                 EXCEPT !.stale = stale]
  IN /\ step' = "loading"
     /\ error' = Null
     /\ subjectType' = subject
     /\ UNCHANGED <<extractedText, quiz, userAnswers, currentQuizOptions>>
     /\ FileUploadAfter(<<>>, Null, Add(otherTasks, call))

\* FileUpload.handleSubmit, up to its await of getPdfPageCount when the batch has a PDF
handleSubmit(subject) ==
  /\ FileUploadShown
  /\ Len(files) > 0
  /\ Room
  /\ Ran("handleSubmit", FALSE)
  /\ IF Len(Pdfs(files)) > 0
       THEN /\ UNCHANGED appVars
            /\ FileUploadAfter(files, uploadError, Add(tasks, NewTask("fuProbe", files, subject)))
       ELSE handleFileProcessed(files, subject, tasks, FALSE)

\* getPdfPageCount(file): pdf.numPages || 0
getPdfPageCount(file) == file.pages

\* SubmitProbeDone without its check of pageCount > 15
SubmitProbeDoneNoLimit(t, resolved) ==
  /\ t.k = "fuProbe"
  /\ Ran("SubmitProbeDone", t.stale)
  /\ IF ~resolved
       THEN /\ UNCHANGED appVars
            /\ FileUploadAfter(files, uploadError, Remove(tasks, t))
     ELSE handleFileProcessed(t.files, t.subject, Remove(tasks, t), t.stale)

\* FileUpload.handleSubmit after await getPdfPageCount; a rejected probe ends the handler
SubmitProbeDone(t, resolved) ==
  /\ t.k = "fuProbe"
  /\ Ran("SubmitProbeDone", t.stale)
  /\ IF ~resolved
       THEN /\ UNCHANGED appVars
            /\ FileUploadAfter(files, uploadError, Remove(tasks, t))
     ELSE IF getPdfPageCount(Pdfs(t.files)[1]) > PageLimit
       THEN /\ UNCHANGED appVars
            /\ FileUploadAfter(files, IF t.live THEN Some("errors.pdfPageLimit") ELSE uploadError,
                               Remove(tasks, t))
     ELSE handleFileProcessed(t.files, t.subject, Remove(tasks, t), t.stale)

\* handleFileProcessed after await getPdfPageCount; a rejected probe ends the handler
AppProbeDone(t, resolved) ==
  /\ t.k = "appProbe"
  /\ Ran("AppProbeDone", t.stale)
  /\ UNCHANGED appVars
  /\ FileUploadAfter(files, uploadError,
       IF resolved THEN Add(Remove(tasks, t), [t EXCEPT !.k = "extract"]) ELSE Remove(tasks, t))

\* the text of the file at position i of a batch, when it has any
FileText(i) == <<ToString(i)>>

\* what the extraction of one file may end in: an error message, or the text
ExtractionOutcomes(file, i) ==
  LET category == mapFileToCategory(file)
      texts == {[ok |-> TRUE, text |-> <<>>], [ok |-> TRUE, text |-> FileText(i)]}
  IN IF category = "image"
       THEN {[ok |-> FALSE, message |-> "errors.unknownExtraction"]} \cup texts
     ELSE IF category = "pdf"
       THEN IF file.pages > PageLimit
              THEN {[ok |-> FALSE, message |-> "Invalid PDF structure."],
                    [ok |-> FALSE, message |-> "PDF exceeds the 15-page limit."]}
              ELSE {[ok |-> FALSE, message |-> "Invalid PDF structure."]} \cup texts
     ELSE {[ok |-> FALSE, message |-> "The DOCX file is missing its main document content."]}
          \cup texts

\* ExtractFile with textChunks.unshift in place of textChunks.push
ExtractFileUnordered(t, outcome) ==
  /\ t.k = "extract"
  /\ outcome \in ExtractionOutcomes(t.files[t.idx], t.idx)
  /\ RanAt("ExtractFile", t.stale, t.idx)
  /\ IF ~outcome.ok
       THEN /\ error' = Some(outcome.message)
            /\ step' = "upload"
            /\ UNCHANGED <<extractedText, quiz, userAnswers, currentQuizOptions, subjectType>>
            /\ FileUploadAfter(files, uploadError, Remove(tasks, t))
     ELSE LET textChunks == IF outcome.text # <<>> THEN <<Trim(outcome.text)>> \o t.chunks
                            ELSE t.chunks
          IN IF t.idx < Len(t.files)
               THEN /\ UNCHANGED appVars
                    /\ FileUploadAfter(files, uploadError,
                         Add(Remove(tasks, t), [t EXCEPT !.idx = @ + 1, !.chunks = textChunks]))
               ELSE /\ extractedText' = Some(Trim(Join(textChunks, <<"\n\n">>)))
                    /\ UNCHANGED <<step, error, quiz, userAnswers, currentQuizOptions, subjectType>>
                    /\ FileUploadAfter(files, uploadError,
                         Add(Remove(tasks, t),
                             [NewTask("timer", <<>>, t.subject) EXCEPT !.to = "options", !.stale = t.stale]))

\* ExtractFile with a catch block that stores the text of the files read so far
ExtractFileSalvages(t, outcome) ==
  /\ t.k = "extract"
  /\ outcome \in ExtractionOutcomes(t.files[t.idx], t.idx)
  /\ RanAt("ExtractFile", t.stale, t.idx)
  /\ IF ~outcome.ok
       THEN /\ error' = Some(outcome.message)
            /\ step' = "upload"
            /\ extractedText' = Some(Trim(Join(t.chunks, <<"\n\n">>)))
            /\ UNCHANGED <<quiz, userAnswers, currentQuizOptions, subjectType>>
            /\ FileUploadAfter(files, uploadError, Remove(tasks, t))
     ELSE LET textChunks == IF outcome.text # <<>> THEN Append(t.chunks, Trim(outcome.text))
                            ELSE t.chunks
          IN IF t.idx < Len(t.files)
               THEN /\ UNCHANGED appVars
                    /\ FileUploadAfter(files, uploadError,
                         Add(Remove(tasks, t), [t EXCEPT !.idx = @ + 1, !.chunks = textChunks]))
               ELSE /\ extractedText' = Some(Trim(Join(textChunks, <<"\n\n">>)))
                    /\ UNCHANGED <<step, error, quiz, userAnswers, currentQuizOptions, subjectType>>
                    /\ FileUploadAfter(files, uploadError,
                         Add(Remove(tasks, t),
                             [NewTask("timer", <<>>, t.subject) EXCEPT !.to = "options", !.stale = t.stale]))

\* extractTextFromUploads at the file t.idx, and, after the last file, the rest of
\* handleFileProcessed
ExtractFile(t, outcome) ==
  /\ t.k = "extract"
  /\ outcome \in ExtractionOutcomes(t.files[t.idx], t.idx)
  /\ RanAt("ExtractFile", t.stale, t.idx)
  /\ IF ~outcome.ok
       THEN /\ error' = Some(outcome.message)
            /\ step' = "upload"
            /\ UNCHANGED <<extractedText, quiz, userAnswers, currentQuizOptions, subjectType>>
            /\ FileUploadAfter(files, uploadError, Remove(tasks, t))
     ELSE LET textChunks == IF outcome.text # <<>> THEN Append(t.chunks, Trim(outcome.text))
                            ELSE t.chunks
          IN IF t.idx < Len(t.files)
               THEN /\ UNCHANGED appVars
                    /\ FileUploadAfter(files, uploadError,
                         Add(Remove(tasks, t), [t EXCEPT !.idx = @ + 1, !.chunks = textChunks]))
               ELSE /\ extractedText' = Some(Trim(Join(textChunks, <<"\n\n">>)))
                    /\ UNCHANGED <<step, error, quiz, userAnswers, currentQuizOptions, subjectType>>
                    /\ FileUploadAfter(files, uploadError,
                         Add(Remove(tasks, t),
                             [NewTask("timer", <<>>, t.subject) EXCEPT !.to = "options", !.stale = t.stale]))

\* setTimeout(() => setStep(to), 500)
TimerFire(t) ==
  /\ t.k = "timer"
  /\ Ran("TimerFire", t.stale)
  /\ step' = t.to
  /\ UNCHANGED <<error, extractedText, quiz, userAnswers, currentQuizOptions, subjectType>>
  /\ FileUploadAfter(files, uploadError, Remove(tasks, t))

\* the options QuizOptions.handleSubmit builds
OptionsFor(subject) ==
  IF subject = SubjectMath THEN MathQuizOptions ELSE TextQuizOptions

\* handleQuizGenerate, up to its await of generateQuizAPI
\* handleQuizGenerate without its `if (!extractedText) return`
handleQuizGenerateUnguarded(options) ==
  /\ QuizOptionsShown
  /\ options \in OptionsFor(subjectType)
  /\ Room
  /\ Ran("handleQuizGenerate", FALSE)
  /\ step' = "loading"
  /\ error' = Null
  /\ currentQuizOptions' = Some(options)
  /\ UNCHANGED <<extractedText, quiz, userAnswers, subjectType>>
  /\ FileUploadAfter(files, uploadError,
       Add(tasks, [NewTask("generate", <<>>, subjectType)
                     EXCEPT !.text = Val(extractedText), !.options = Some(options)]))

handleQuizGenerate(options) ==
  /\ QuizOptionsShown
  /\ options \in OptionsFor(subjectType)
  /\ IF Val(extractedText) = <<>>
       THEN /\ Ran("handleQuizGenerate", FALSE)
            /\ UNCHANGED <<appVars, files, uploadError, tasks>>
       ELSE /\ Room
            /\ Ran("handleQuizGenerate", FALSE)
            /\ step' = "loading"
            /\ error' = Null
            /\ currentQuizOptions' = Some(options)
            /\ UNCHANGED <<extractedText, quiz, userAnswers, subjectType>>
            /\ FileUploadAfter(files, uploadError,
                 Add(tasks, [NewTask("generate", <<>>, subjectType)
                               EXCEPT !.text = Val(extractedText), !.options = Some(options)]))

\* GenerateDone with a catch block that also clears the extracted text
GenerateDoneClearsText(t, resp) ==
  /\ t.k = "generate"
  /\ Ran("GenerateDone", t.stale)
  /\ LET llm == generateQuizAPI(resp)
         parsed == fallbackParseToQuiz(llm.content, Val(t.options))
     IN IF llm.ok /\ parsed.ok
          THEN /\ quiz' = Some(parsed.quiz)
               /\ userAnswers' = EmptyAnswers
               /\ UNCHANGED <<step, error, extractedText, currentQuizOptions, subjectType>>
               /\ FileUploadAfter(files, uploadError,
                    Add(Remove(tasks, t),
                        [NewTask("timer", <<>>, t.subject) EXCEPT !.to = "quiz", !.stale = t.stale]))
          ELSE /\ error' = Some(IF llm.ok THEN parsed.message ELSE llm.message)
               /\ step' = "options"
               /\ extractedText' = Null
               /\ UNCHANGED <<quiz, userAnswers, currentQuizOptions, subjectType>>
               /\ FileUploadAfter(files, uploadError, Remove(tasks, t))

\* handleQuizGenerate after await generateQuizAPI
GenerateDone(t, resp) ==
  /\ t.k = "generate"
  /\ Ran("GenerateDone", t.stale)
  /\ LET llm == generateQuizAPI(resp)
         parsed == fallbackParseToQuiz(llm.content, Val(t.options))
     IN IF llm.ok /\ parsed.ok
          THEN /\ quiz' = Some(parsed.quiz)
               /\ userAnswers' = EmptyAnswers
               /\ UNCHANGED <<step, error, extractedText, currentQuizOptions, subjectType>>
               /\ FileUploadAfter(files, uploadError,
                    Add(Remove(tasks, t),
                        [NewTask("timer", <<>>, t.subject) EXCEPT !.to = "quiz", !.stale = t.stale]))
          ELSE /\ error' = Some(IF llm.ok THEN parsed.message ELSE llm.message)
               /\ step' = "options"
               /\ UNCHANGED <<extractedText, quiz, userAnswers, currentQuizOptions, subjectType>>
               /\ FileUploadAfter(files, uploadError, Remove(tasks, t))

(***************************************************************************)
(* QuizDisplay.tsx                                                         *)
(***************************************************************************)
isTrueFalseQuestion(question) ==
  \/ question.type = TrueFalse
  \/ /\ question.optionsDefined
     /\ Len(question.options) = 2
     /\ {Lower(Trim(question.options[i])) : i \in 1..2} = {Lower(sTrue), Lower(sFalse)}

\* what the user may type into the textarea of an Open question
TypedAnswers(question) == {question.answer, <<" ">>}

\* the answers the inputs rendered for a question can report
AnswerInputs(question) ==
  (IF question.type = MultipleChoice /\ question.optionsDefined /\ ~isTrueFalseQuestion(question)
     THEN {question.options[i] : i \in 1..Len(question.options)} ELSE {})
  \cup (IF isTrueFalseQuestion(question) THEN {sTrue, sFalse} ELSE {})
  \cup (IF question.type = Open THEN TypedAnswers(question) ELSE {})

\* setUserAnswers((prev) => ({...prev, [questionIndex]: answer}))
SetAnswer(prev, questionIndex, answer) ==
  [i \in DOMAIN prev \cup {questionIndex} |-> IF i = questionIndex THEN answer ELSE prev[i]]

handleAnswerChange(questionIndex, answer) ==
  /\ QuizDisplayShown
  /\ questionIndex \in 0..(Len(Val(quiz).questions) - 1)
  /\ answer \in AnswerInputs(Val(quiz).questions[questionIndex + 1])
  /\ Ran("handleAnswerChange", FALSE)
  /\ userAnswers' = SetAnswer(userAnswers, questionIndex, answer)
  /\ UNCHANGED <<step, error, extractedText, quiz, currentQuizOptions, subjectType,
                 files, uploadError, tasks>>

allQuestionsAnswered ==
  /\ Cardinality(DOMAIN userAnswers) = Len(Val(quiz).questions)
  /\ \A i \in DOMAIN userAnswers : Trim(userAnswers[i]) # <<>>

\* the submit button of QuizDisplay: onSubmit={() => handleSubmitQuiz(userAnswers)}
handleSubmitQuiz ==
  /\ QuizDisplayShown
  /\ allQuestionsAnswered
  /\ Ran("handleSubmitQuiz", FALSE)
  /\ step' = "results"
  /\ UNCHANGED <<error, extractedText, quiz, userAnswers, currentQuizOptions, subjectType>>
  /\ FileUploadAfter(files, uploadError, tasks)

(***************************************************************************)
(* QuizResults: scoring.  isAnswerCorrect is the comparison of the version *)
(* of the component that takes subjectType; correctAnswers is the memo of  *)
(* components/QuizResults.tsx.                                             *)
(***************************************************************************)
\* userAnswer: Null where userAnswers[index] is undefined
isAnswerCorrect(userAnswer, correctAnswer, subject) ==
  IF IsNull(userAnswer) THEN FALSE
  ELSE LET userAnswerClean == Trim(Val(userAnswer))
           trimmed == Trim(correctAnswer)
           delimited == subject = SubjectMath /\ Len(trimmed) > 0
                        /\ trimmed[1] = "$" /\ trimmed[Len(trimmed)] = "$"
           \* substring(1, length - 1); substring(1, 0) is substring(0, 1)
           correctAnswerClean == IF ~delimited THEN trimmed
                                 ELSE IF Len(trimmed) = 1 THEN trimmed
                                 ELSE Trim(SubSeq(trimmed, 2, Len(trimmed) - 1))
       IN Lower(userAnswerClean) = Lower(correctAnswerClean)

\* the correctness flag of each question; every question of a Quiz passes the filter of
\* sanitizedQuestions, its question and answer being strings
correctAnswers(questions, answers) ==
  [i \in 1..Len(questions) |->
     LET userAnswer == IF (i - 1) \in DOMAIN answers /\ answers[i - 1] # <<>>
                         THEN Trim(answers[i - 1]) ELSE <<>>
         correctAnswer == Trim(questions[i].answer)
     IN Lower(userAnswer) = Lower(correctAnswer)]

(***************************************************************************)
(* App.tsx: restart and regeneration                                       *)
(***************************************************************************)
\* the state handleRestart sets
Restarted ==
  /\ step' = "upload"
  /\ error' = Null
  /\ extractedText' = Null
  /\ quiz' = Null
  /\ userAnswers' = EmptyAnswers
  /\ currentQuizOptions' = Null
  /\ UNCHANGED subjectType
  /\ FileUploadAfter(<<>>, Null, StaleAll(tasks))

\* where renderContent offers handleRestart: the error panel, the Back button of
\* QuizOptions, the onRestart button of QuizResults
RestartOffered == ErrorPanelShown \/ QuizOptionsShown \/ QuizResultsShown

handleRestart ==
  /\ RestartOffered
  /\ Ran("handleRestart", FALSE)
  /\ Restarted

\* renderContent, case 'options' with extractedText === null: handleRestart(); return null
RenderRestart ==
  /\ Rendered(step, error, "options")
  /\ IsNull(extractedText)
  /\ Ran("RenderRestart", FALSE)
  /\ Restarted

\* handleGenerateNewQuiz that also discards the extracted text
handleGenerateNewQuizClearsText ==
  /\ QuizResultsShown
  /\ Ran("handleGenerateNewQuiz", FALSE)
  /\ step' = "options"
  /\ quiz' = Null
  /\ userAnswers' = EmptyAnswers
  /\ extractedText' = Null
  /\ UNCHANGED <<error, currentQuizOptions, subjectType>>
  /\ FileUploadAfter(files, uploadError, tasks)

\* handleGenerateNewQuiz that keeps the answers of the discarded quiz
handleGenerateNewQuizKeepsAnswers ==
  /\ QuizResultsShown
  /\ Ran("handleGenerateNewQuiz", FALSE)
  /\ step' = "options"
  /\ quiz' = Null
  /\ UNCHANGED <<error, extractedText, userAnswers, currentQuizOptions, subjectType>>
  /\ FileUploadAfter(files, uploadError, tasks)

handleGenerateNewQuiz ==
  /\ QuizResultsShown
  /\ Ran("handleGenerateNewQuiz", FALSE)
  /\ step' = "options"
  /\ quiz' = Null
  /\ userAnswers' = EmptyAnswers
  /\ UNCHANGED <<error, extractedText, currentQuizOptions, subjectType>>
  /\ FileUploadAfter(files, uploadError, tasks)

(***************************************************************************)
(* The specification.                                                      *)
(***************************************************************************)
Init ==
  /\ step = "upload"
  /\ error = Null
  /\ extractedText = Null
  /\ quiz = Null
  /\ userAnswers = EmptyAnswers
  /\ currentQuizOptions = Null
  /\ subjectType = SubjectText
  /\ files = <<>>
  /\ uploadError = Null
  /\ tasks = EmptyBag
  /\ last = [op |-> "init", stale |-> FALSE, at |-> 0]

Next ==
  \/ \E selectedFiles \in Batches : handleFileChange(selectedFiles)
  \/ \E t \in TaskSet, rendered \in BOOLEAN : PdfRenderDone(t, rendered)
  \/ \E subject \in SubjectType : handleSubmit(subject)
  \/ \E t \in TaskSet, resolved \in BOOLEAN : SubmitProbeDone(t, resolved)
  \/ \E t \in TaskSet, resolved \in BOOLEAN : AppProbeDone(t, resolved)
  \/ \E t \in {x \in TaskSet : x.k = "extract"} :
       \E outcome \in ExtractionOutcomes(t.files[t.idx], t.idx) : ExtractFile(t, outcome)
  \/ \E t \in TaskSet : TimerFire(t)
  \/ \E options \in QuizOptionsValues : handleQuizGenerate(options)
  \/ \E t \in TaskSet, resp \in Responses : GenerateDone(t, resp)
  \/ /\ QuizDisplayShown
     /\ \E questionIndex \in 0..(Len(Val(quiz).questions) - 1) :
          \E answer \in AnswerInputs(Val(quiz).questions[questionIndex + 1]) :
            handleAnswerChange(questionIndex, answer)
  \/ handleSubmitQuiz
  \/ handleRestart
  \/ RenderRestart
  \/ handleGenerateNewQuiz

Spec == Init /\ [][Next]_vars

(***************************************************************************)
(* The generation specification: a generation call is in flight, and the   *)
(* service may answer it with any of the completions.                      *)
(***************************************************************************)
AllResponses ==
  Responses
  \cup {[net |-> TRUE, ok |-> TRUE, error |-> Null, content |-> Some(c)] : c \in Completions}
  \cup {[net |-> TRUE, ok |-> ok, error |-> e, content |-> Some(ExampleRaw)] :
          ok \in BOOLEAN, e \in {Some(""), Some(UpstreamError)}}

\* the state handleQuizGenerate leaves when the text of one file was extracted
InitGenerate ==
  \E options \in QuizOptionsValues :
    /\ step = "loading"
    /\ error = Null
    /\ extractedText = Some(FileText(1))
    /\ quiz = Null
    /\ userAnswers = EmptyAnswers
    /\ currentQuizOptions = Some(options)
    /\ subjectType = options.subjectType
    /\ files = <<>>
    /\ uploadError = Null
    /\ tasks = SetToBag({[NewTask("generate", <<>>, options.subjectType)
                            EXCEPT !.text = FileText(1), !.options = Some(options)]})
    /\ last = [op |-> "handleQuizGenerate", stale |-> FALSE, at |-> 0]

NextGenerate ==
  \/ \E t \in TaskSet, resp \in AllResponses : GenerateDone(t, resp)
  \/ \E t \in TaskSet : TimerFire(t)
  \/ /\ QuizDisplayShown
     /\ \E questionIndex \in 0..(Len(Val(quiz).questions) - 1) :
          \E answer \in AnswerInputs(Val(quiz).questions[questionIndex + 1]) :
            handleAnswerChange(questionIndex, answer)
  \/ handleSubmitQuiz
  \/ handleGenerateNewQuiz
  \/ \E options \in QuizOptionsValues : handleQuizGenerate(options)

SpecGenerate == InitGenerate /\ [][NextGenerate]_vars

(***************************************************************************)
(* Claims.                                                                 *)
(***************************************************************************)
\* C1: for every completion and every QuizOptions value fallbackParseToQuiz either
\* throws the parse error or returns a Quiz with at least one question, and so the quiz
\* held in App state never has an empty question list.
QuizNeverEmpty ==
  /\ IsNull(quiz) \/ Len(Val(quiz).questions) >= 1
  /\ \A t \in TaskSet : t.k = "generate" =>
       \A c \in Completions :
         LET parsed == fallbackParseToQuiz(c, Val(t.options))
         IN IF parsed.ok THEN Len(parsed.quiz.questions) >= 1
            ELSE parsed.message = ParseErrorMessage

\* a quiz of two questions that the block parser returned is stored
QuizStored ==
  /\ last.op = "GenerateDone"
  /\ ~IsNull(quiz)
  /\ Len(Val(quiz).questions) = 2
  /\ Val(quiz).title = GeneratedQuiz

\* the Error handleQuizGenerate catches when call t is answered with resp, or Null when
\* the attempt succeeds
GenerateError(t, resp) ==
  LET llm == generateQuizAPI(resp)
  IN IF ~llm.ok THEN Some(llm.message)
     ELSE LET parsed == fallbackParseToQuiz(llm.content, Val(t.options))
          IN IF parsed.ok THEN Null ELSE Some(parsed.message)

\* C2: when a generation attempt fails (the remote call rejects, or the response cannot
\* be parsed) extractedText keeps its value, no quiz is stored, step becomes 'options'
\* and error holds the failure message.
FailedGenerationKeepsText ==
  [][\A t \in TaskSet, resp \in Responses :
       (t.k = "generate" /\ ~IsNull(GenerateError(t, resp)) /\ GenerateDone(t, resp))
         => /\ extractedText' = extractedText
            /\ quiz' = quiz
            /\ step' = "options"
            /\ error' = GenerateError(t, resp)]_vars

\* a generation has just failed on an unparsable response, the extracted text still stored
FailedGenerationShown ==
  /\ last.op = "GenerateDone"
  /\ step = "options"
  /\ error = Some(ParseErrorMessage)
  /\ extractedText = Some(FileText(1))
  /\ IsNull(quiz)

\* the completion of a call that was in flight when handleRestart ran
StaleCompletion ==
  \E t \in TaskSet :
    /\ t.stale
    /\ \/ /\ t.k = "extract"
          /\ \E outcome \in ExtractionOutcomes(t.files[t.idx], t.idx) : ExtractFile(t, outcome)
       \/ /\ t.k = "generate"
          /\ \E resp \in Responses : GenerateDone(t, resp)
       \/ TimerFire(t)

\* C3: the completion (success or failure) of an extraction or generation call that was
\* in flight when a restart happened is dropped: it changes none of step, extractedText,
\* quiz, userAnswers and error.
StaleCompletionDropped ==
  [][StaleCompletion => UNCHANGED <<step, extractedText, quiz, userAnswers, error>>]_vars

\* C4: in the state reached after a generation failure the user can submit quiz options
\* again (handleQuizGenerate is offered) while the extracted text is still stored.
RetryOfferedAfterFailure ==
  (last.op = "GenerateDone" /\ ~last.stale /\ step = "options" /\ ErrorShown(error))
    => (QuizOptionsShown /\ ~IsNull(extractedText))

\* the state App starts in and handleRestart returns to
FreshUpload ==
  /\ step = "upload"
  /\ IsNull(error)
  /\ IsNull(extractedText)
  /\ IsNull(quiz)
  /\ IsNull(currentQuizOptions)
  /\ userAnswers = EmptyAnswers

\* C5: from every reachable state of the flow a restart action is offered to the user
\* (the fresh upload state, where a restart would change nothing, is left aside), and
\* taking it leads to the fresh upload state.
RestartAlwaysOffered ==
  /\ ~FreshUpload => RestartOffered
  /\ last.op = "handleRestart" => FreshUpload

\* the edges of the flow
FlowEdges ==
  {<<"upload", "loading">>, <<"loading", "options">>, <<"loading", "upload">>,
   <<"options", "loading">>, <<"loading", "quiz">>, <<"quiz", "results">>}

\* C6: apart from restart and regeneration from results, step changes only along the
\* edges of the flow.
StepFollowsFlow ==
  [][(step' # step /\ last'.op \notin {"handleRestart", "RenderRestart", "handleGenerateNewQuiz"})
       => <<step, step'>> \in FlowEdges]_vars

\* the generation calls in flight
GenerateCalls(b) == SumCounts(b, {t \in DOMAIN b : t.k = "generate"})

OverLimit(fs) == \E i \in 1..Len(fs) : isPdf(fs[i]) /\ fs[i].pages > PageLimit

BatchFailsWhole ==
  [][\A t \in TaskSet : t.k = "extract" =>
       \A outcome \in ExtractionOutcomes(t.files[t.idx], t.idx) :
         ExtractFile(t, outcome) =>
           IF ~outcome.ok
             THEN /\ extractedText' = extractedText
                  /\ error' = Some(outcome.message)
                  /\ step' = "upload"
                  /\ \A x \in BagToSet(tasks') :
                       x.k \in {"extract", "timer"} => CopiesIn(x, tasks') <= CopiesIn(x, tasks)
           ELSE IF outcome.text = <<>>
             THEN /\ UNCHANGED <<step, error>>
                  /\ IF t.idx < Len(t.files)
                       THEN [t EXCEPT !.idx = @ + 1] \in BagToSet(tasks')
                       ELSE extractedText' = Some(Trim(Join(t.chunks, <<"\n\n">>)))
           ELSE TRUE]_vars

\* the second image of a batch has just failed after the first was read: the error is
\* shown on the upload step and no text is stored
BatchFailureShown ==
  /\ last.op = "ExtractFile"
  /\ last.at = 2
  /\ step = "upload"
  /\ error = Some("errors.unknownExtraction")
  /\ IsNull(extractedText)
  /\ tasks = EmptyBag

\* 1 to 5 images, or one PDF, or one DOCX, and nothing else
WellFormedBatch(fs) ==
  \/ Len(fs) \in 1..MaxImages /\ \A i \in 1..Len(fs) : isImage(fs[i])
  \/ Len(fs) = 1 /\ isPdf(fs[1])
  \/ Len(fs) = 1 /\ isDocx(fs[1])

\* C10: every batch FileUpload accepts and passes on to extraction is 1 to 5 images, or
\* exactly one PDF, or exactly one DOCX, and nothing else.
AcceptedBatchesWellFormed ==
  /\ files = <<>> \/ WellFormedBatch(files)
  /\ \A t \in TaskSet : t.k \in {"fuProbe", "appProbe", "extract"} => WellFormedBatch(t.files)

\* a file whose declared media type is image/*, application/pdf or the DOCX type
SupportedFile(f) == isImage(f) \/ isPdf(f) \/ isDocx(f)

\* C11: no batch that holds a file whose declared media type is neither image/*,
\* application/pdf nor the DOCX type, at any position, is accepted into the selected
\* files or handed to extractTextFromUploads.
UnsupportedFileRejected ==
  /\ \A i \in 1..Len(files) : SupportedFile(files[i])
  /\ \A t \in TaskSet : \A i \in 1..Len(t.files) : SupportedFile(t.files[i])

\* the per-file texts a call has collected are non-empty, each is the text of a file
\* before the one being extracted, and they stand in file order
ChunksInFileOrder(t) ==
  /\ Len(t.chunks) < t.idx
  /\ \A j \in 1..Len(t.chunks) :
       /\ t.chunks[j] # <<>>
       /\ \E i \in j..(t.idx - 1) : t.chunks[j] = FileText(i)
  /\ \A j \in 1..(Len(t.chunks) - 1) :
       \E i \in 1..(t.idx - 1), k \in 1..(t.idx - 1) :
         i < k /\ t.chunks[j] = FileText(i) /\ t.chunks[j + 1] = FileText(k)

\* the texts in order with a blank line between two of them
BlankLineJoined(chunks) ==
  IF Len(chunks) = 0 THEN <<>>
  ELSE IF Len(chunks) = 1 THEN chunks[1]
  ELSE chunks[1] \o <<"\n\n">> \o chunks[2]

\* C12: extractTextFromUploads handles the files of a batch one at a time in list order:
\* a step of a call is about the one file the call is at, the next file is started only
\* by the step that completes that file, and the text returned after the last file is
\* the non-empty per-file texts in file order with a blank line between them (an empty
\* per-file text is dropped).
ExtractionInFileOrder ==
  [][\A t \in TaskSet : t.k = "extract" =>
       \A outcome \in ExtractionOutcomes(t.files[t.idx], t.idx) :
         (outcome.ok /\ ExtractFile(t, outcome)) =>
           LET collected == IF outcome.text = <<>> THEN t.chunks
                            ELSE Append(t.chunks, outcome.text)
           IN /\ ChunksInFileOrder(t)
              /\ last'.at = t.idx
              /\ IF t.idx < Len(t.files)
                   THEN /\ extractedText' = extractedText
                        /\ \E u \in BagToSet(tasks') :
                             /\ u.k = "extract" /\ u.files = t.files
                             /\ u.idx = t.idx + 1 /\ u.chunks = collected
                             /\ ChunksInFileOrder(u)
                             /\ CopiesIn(u, tasks') = CopiesIn(u, tasks) + 1
                        /\ CopiesIn(t, tasks') = CopiesIn(t, tasks) - 1
                   ELSE /\ extractedText' = Some(BlankLineJoined(collected))
                        /\ \A u \in BagToSet(tasks') : u.k = "extract" =>
                             CopiesIn(u, tasks') <= CopiesIn(u, tasks)]_vars

\* the second of two images has just been read after the first: the stored text is the
\* two texts in file order with a blank line between them
BatchTextStored ==
  /\ last.op = "ExtractFile"
  /\ last.at = 2
  /\ extractedText = Some(FileText(1) \o <<"\n\n">> \o FileText(2))

\* C13: every question of type TrueFalse of a Quiz the normalizer returned (JSON path or
\* text-block path) has the answer "True" or the answer "False".
TrueFalseAnswersCanonical ==
  ~IsNull(quiz) =>
    \A i \in 1..Len(Val(quiz).questions) :
      Val(quiz).questions[i].type = TrueFalse
        => Val(quiz).questions[i].answer \in {sTrue, sFalse}

\* a raw answer that is a non-blank string not starting with t or f, in either case
UnrecognizedAnswer(rawAnswer) ==
  /\ rawAnswer.t = "str"
  /\ Trim(rawAnswer.s) # <<>>
  /\ Lower(Trim(rawAnswer.s))[1] \notin {"t", "f"}

\* the raw questions of a completion, as the path that yields its Quiz reads them: for
\* each, at its position, its question text, whether its type resolves to TrueFalse, and
\* its raw answer
RawTrueFalseItems(c, options) ==
  LET fallbackType == getRequestedQuizType(options)
      blocks == SplitBlocks(c.lines, <<>>)
      rawQuestions == IF IsNull(tryParseJsonQuiz(c, options)) THEN <<>>
                      ELSE ResolveQuestions(Val(extractJsonFromContent(c)).value)
  IN IF IsNull(tryParseJsonQuiz(c, options))
       THEN [i \in 1..Len(blocks) |->
               [text |-> StripQuestionMarker(blocks[i][1]),
                tf |-> fallbackType = TrueFalse,
                answer |-> JStr(ScanLines(Tail(blocks[i]),
                                  [answer |-> <<>>, explanation |-> <<>>, optionsList |-> <<>>]).answer)]]
       ELSE [i \in 1..Len(rawQuestions) |->
               [text |-> Trim(FirstString(rawQuestions[i],
                                    <<"question", "prompt", "stem", "text">>)),
                tf |-> isRecord(rawQuestions[i])
                       /\ normalizeQuizType(CoalesceKeys(rawQuestions[i],
                            <<"type", "questionType", "format">>), fallbackType) = TrueFalse,
                answer |-> CoalesceKeys(rawQuestions[i],
                             <<"answer", "correctAnswer", "correct", "solution", "key">>)]]

\* C14: for every TrueFalse question (one that has a question text) whose raw answer is
\* an unrecognized string the Quiz returned holds, at the same position, that question
\* as a TrueFalse question with answer "True" and options ["True", "False"].
UnrecognizedTrueFalseKept ==
  \A t \in TaskSet : t.k = "generate" =>
    \A c \in Completions :
      LET items == RawTrueFalseItems(c, Val(t.options))
          parsed == fallbackParseToQuiz(c, Val(t.options))
      IN \A i \in 1..Len(items) :
           (items[i].tf /\ items[i].text # <<>> /\ UnrecognizedAnswer(items[i].answer))
             => /\ parsed.ok
                /\ i <= Len(parsed.quiz.questions)
                /\ parsed.quiz.questions[i].question = items[i].text
                /\ parsed.quiz.questions[i].type = TrueFalse
                /\ parsed.quiz.questions[i].answer = sTrue
                /\ parsed.quiz.questions[i].optionsDefined
                /\ parsed.quiz.questions[i].options = <<sTrue, sFalse>>

\* a completion with no JSON in it and no line of the shape of a numbered question, an
\* option, an answer or an explanation
TotallyMalformed(c) ==
  /\ IsNull(extractJsonFromContent(c))
  /\ \A i \in 1..Len(c.lines) :
       /\ StripQuestionMarker(c.lines[i]) = Trim(c.lines[i])
       /\ IsNull(optionMatch(Trim(c.lines[i])))
       /\ IsNull(answerMatch(Trim(c.lines[i])))
       /\ IsNull(explanationMatch(Trim(c.lines[i])))

\* C15: for every completion that is empty or totally malformed fallbackParseToQuiz
\* throws the parse error and returns no Quiz.
MalformedCompletionRejected ==
  \A t \in TaskSet : t.k = "generate" =>
    \A c \in Completions :
      TotallyMalformed(c) =>
        LET parsed == fallbackParseToQuiz(c, Val(t.options))
        IN ~parsed.ok /\ parsed.message = ParseErrorMessage

\* the question list of a completion that holds valid JSON, else the empty list
JsonQuestionList(c) ==
  IF IsNull(extractJsonFromContent(c)) \/ Val(extractJsonFromContent(c)).text # "json"
    THEN <<>>
    ELSE ResolveQuestions(Val(extractJsonFromContent(c)).value)

\* the text of a raw question, trimmed
QuestionTextOf(rawQuestion) ==
  Trim(FirstString(rawQuestion, <<"question", "prompt", "stem", "text">>))

\* the type a raw question resolves to
QuestionTypeOf(rawQuestion, fallbackType) ==
  normalizeQuizType(CoalesceKeys(rawQuestion, <<"type", "questionType", "format">>), fallbackType)

\* a raw question that is an object, has a question text and, when its type resolves to
\* MultipleChoice, at least one non-empty option
WellFormedQuestion(rawQuestion, fallbackType) ==
  /\ isRecord(rawQuestion)
  /\ QuestionTextOf(rawQuestion) # <<>>
  /\ QuestionTypeOf(rawQuestion, fallbackType) = MultipleChoice
       => \E key \in {"options", "choices", "answers", "optionsList"} :
            LET rawOptions == Get(rawQuestion, key)
            IN \/ rawOptions.t = "arr"
                  /\ \E i \in 1..Len(rawOptions.a) : Trim(ToStr(rawOptions.a[i])) # <<>>
               \/ rawOptions.t = "obj"
                  /\ \E k \in DOMAIN rawOptions.o : Trim(ToStr(rawOptions.o[k])) # <<>>

\* C16 as stated: for every valid JSON completion whose question list holds at least one
\* well-formed question the Quiz returned has as many questions as the list, the i-th of
\* them made from the i-th question of the list.
JsonQuestionCountKept ==
  \A t \in TaskSet : t.k = "generate" =>
    \A c \in Completions :
      LET fallbackType == getRequestedQuizType(Val(t.options))
          rawQuestions == JsonQuestionList(c)
          parsed == fallbackParseToQuiz(c, Val(t.options))
      IN (\E i \in 1..Len(rawQuestions) : WellFormedQuestion(rawQuestions[i], fallbackType))
           => /\ parsed.ok
              /\ Len(parsed.quiz.questions) = Len(rawQuestions)
              /\ \A i \in 1..Len(rawQuestions) :
                   parsed.quiz.questions[i].question = QuestionTextOf(rawQuestions[i])

\* C16, amended: for every valid JSON completion whose question list holds at least one
\* well-formed question the Quiz returned has exactly one question for each well-formed
\* question of the list, in the order of the list; the questions of the list that are not
\* well-formed are left out.  The count is the count of the list when every question of
\* the list is well-formed.
WellFormedQuestionsKept ==
  \A t \in TaskSet : t.k = "generate" =>
    \A c \in Completions :
      LET fallbackType == getRequestedQuizType(Val(t.options))
          rawQuestions == JsonQuestionList(c)
          kept == SelectSeq(rawQuestions, LAMBDA r : WellFormedQuestion(r, fallbackType))
          parsed == fallbackParseToQuiz(c, Val(t.options))
      IN Len(kept) > 0
           => /\ parsed.ok
              /\ Len(parsed.quiz.questions) = Len(kept)
              /\ \A k \in 1..Len(kept) :
                   /\ parsed.quiz.questions[k].question = QuestionTextOf(kept[k])
                   /\ parsed.quiz.questions[k].type = QuestionTypeOf(kept[k], fallbackType)

\* the Quiz made from the list of three questions whose second has a blank text is
\* stored: it holds the first and the third, in that order
MixedListNormalized ==
  /\ last.op = "GenerateDone"
  /\ ~IsNull(quiz)
  /\ Len(Val(quiz).questions) = 2
  /\ Val(quiz).questions[1].question = <<"X">>
  /\ Val(quiz).questions[2].question = <<"Q", "1">>

\* C17: for every MultipleChoice question whose raw answer is a number that is a
\* zero-based index into the options of the output question, 0 included, the answer of
\* the output question is the option at that index, and the question is in the Quiz.
NumericIndexSelectsOption ==
  \A t \in TaskSet : t.k = "generate" =>
    \A c \in Completions :
      LET fallbackType == getRequestedQuizType(Val(t.options))
          rawQuestions == JsonQuestionList(c)
          parsed == fallbackParseToQuiz(c, Val(t.options))
      IN \A i \in 1..Len(rawQuestions) :
           LET rawAnswer == CoalesceKeys(rawQuestions[i],
                              <<"answer", "correctAnswer", "correct", "solution", "key">>)
               mapped == mapJsonQuestionToQuestion(rawQuestions[i], fallbackType)
           IN (/\ WellFormedQuestion(rawQuestions[i], fallbackType)
               /\ QuestionTypeOf(rawQuestions[i], fallbackType) = MultipleChoice
               /\ rawAnswer.t = "num")
                => /\ ~IsNull(mapped)
                   /\ Val(mapped).type = MultipleChoice
                   /\ rawAnswer.n \in 0..(Len(Val(mapped).options) - 1)
                        => Val(mapped).answer = Val(mapped).options[rawAnswer.n + 1]
                   /\ parsed.ok
                   /\ \E k \in 1..Len(parsed.quiz.questions) :
                        parsed.quiz.questions[k] = Val(mapped)

\* a Quiz is stored whose first question had the raw answer 1 and whose second had the
\* raw answer 0: their answers are the second and the first of their options
IndexedAnswersStored ==
  /\ last.op = "GenerateDone"
  /\ ~IsNull(quiz)
  /\ Len(Val(quiz).questions) = 2
  /\ Val(quiz).questions[1].type = MultipleChoice
  /\ Val(quiz).questions[1].options = << <<"A">>, <<"B">> >>
  /\ Val(quiz).questions[1].answer = <<"B">>
  /\ Val(quiz).questions[2].type = MultipleChoice
  /\ Val(quiz).questions[2].answer = <<"A">>

\* C18: every question of a Quiz the normalizer returned (JSON path or text-block path,
\* every type) has a non-empty question text and a non-empty answer.
QuestionsHaveTextAndAnswer ==
  ~IsNull(quiz) =>
    \A i \in 1..Len(Val(quiz).questions) :
      /\ Val(quiz).questions[i].question # <<>>
      /\ Val(quiz).questions[i].answer # <<>>

\* the user's answers to the questions whose zero-based index is in D
AnswersWithin(D) == [i \in D \cap DOMAIN userAnswers |-> userAnswers[i]]

\* C19: a question with no entry in userAnswers is counted incorrect whatever its
\* canonical answer is, the empty one included, and so adds nothing to the score: for
\* the Quiz stored and every part of the answers given, both the comparison
\* isAnswerCorrect and the flag of the score memo are false for each question left out.
UnansweredCountedIncorrect ==
  ~IsNull(quiz) =>
    \A D \in SUBSET (0..(Len(Val(quiz).questions) - 1)) :
      \A i \in 1..Len(Val(quiz).questions) :
        (i - 1) \notin DOMAIN AnswersWithin(D)
          => /\ ~isAnswerCorrect(Null, Val(quiz).questions[i].answer, subjectType)
             /\ ~correctAnswers(Val(quiz).questions, AnswersWithin(D))[i]

\* the canonical answer as the comparison takes it: trimmed and, for a Math quiz, without
\* one pair of enclosing $ delimiters
CanonicalForComparison(answer, subject) ==
  LET trimmed == Trim(answer)
  IN IF subject = SubjectMath /\ Len(trimmed) >= 2
        /\ trimmed[1] = "$" /\ trimmed[Len(trimmed)] = "$"
       THEN SubSeq(trimmed, 2, Len(trimmed) - 1)
       ELSE trimmed

\* answers a user may give to a question: its canonical answer as it is, in lower case
\* and without its delimiters, True and False in either case, and a blank
UserInputs(question) ==
  {question.answer, Lower(question.answer),
   CanonicalForComparison(question.answer, SubjectMath),
   sTrue, sFalse, Lower(sTrue), Lower(sFalse), <<" ">>}

\* C20: the scoring reports a question correct exactly when the trimmed user answer
\* equals, without regard to case, the trimmed canonical answer, one enclosing pair of $
\* delimiters being stripped from the canonical answer first for a Math quiz and for no
\* other: both the comparison isAnswerCorrect and the flag of the score memo agree with
\* that for the Quiz stored and every answer a user may give.
ScoringMatchesComparison ==
  ~IsNull(quiz) =>
    \A i \in 1..Len(Val(quiz).questions) :
      \A u \in UserInputs(Val(quiz).questions[i]) :
        LET expected == Lower(Trim(u))
                          = Lower(CanonicalForComparison(Val(quiz).questions[i].answer, subjectType))
        IN /\ isAnswerCorrect(Some(u), Val(quiz).questions[i].answer, subjectType) = expected
           /\ correctAnswers(Val(quiz).questions, [x \in {i - 1} |-> u])[i] = expected

\* the body of the response carries a non-empty error string
HasErrorText(resp) == ~IsNull(resp.error) /\ Val(resp.error) # ""

\* C21 as stated: a non-2xx response with body {error: s} makes handleQuizGenerate show
\* exactly s, and the completion text is returned only for a 2xx response whose body has
\* no error field.
ErrorBodyShownVerbatim ==
  [][\A t \in TaskSet, resp \in AllResponses :
       (t.k = "generate" /\ resp.net /\ GenerateDone(t, resp))
         => /\ (~resp.ok /\ ~IsNull(resp.error))
                 => (error' = resp.error /\ step' = "options")
            /\ generateQuizAPI(resp).ok => (resp.ok /\ IsNull(resp.error))]_vars

\* C21: a non-2xx response with body {error: s} makes handleQuizGenerate show exactly s
\* when s is not empty and "Generation failed" when it is; the completion text is
\* returned (and parsed, so that a quiz can be stored) only for a 2xx response whose
\* body has no error field or an empty one, and it is then choices[0].message.content.
ErrorBodyShownUnlessEmpty ==
  [][\A t \in TaskSet, resp \in AllResponses :
       (t.k = "generate" /\ resp.net /\ GenerateDone(t, resp))
         => /\ (~resp.ok /\ ~IsNull(resp.error))
                 => /\ error' = Some(IF HasErrorText(resp) THEN Val(resp.error)
                                     ELSE GenerationFailed)
                    /\ step' = "options"
                    /\ quiz' = quiz
            /\ generateQuizAPI(resp).ok <=> (resp.ok /\ ~HasErrorText(resp))
            /\ generateQuizAPI(resp).ok
                 => generateQuizAPI(resp).content
                      = (IF IsNull(resp.content) THEN EmptyRaw ELSE Val(resp.content))
            /\ quiz' # quiz => (resp.ok /\ ~HasErrorText(resp))]_vars

\* the error string of a non-2xx response is shown on the options step
UpstreamErrorShown ==
  /\ last.op = "GenerateDone"
  /\ step = "options"
  /\ error = Some(UpstreamError)
  /\ IsNull(quiz)

\* the zero-based indices of the questions of the current quiz
QuestionIndices == IF IsNull(quiz) THEN {} ELSE 0..(Len(Val(quiz).questions) - 1)

\* userAnswers holds a non-blank answer for every question index of the current quiz
EveryQuestionAnswered ==
  /\ DOMAIN userAnswers = QuestionIndices
  /\ \A i \in DOMAIN userAnswers : Trim(userAnswers[i]) # <<>>

\* C22: the keys of userAnswers are question indices of the current quiz; userAnswers
\* is empty after every step that stores or clears the quiz; and every step that enters
\* 'results' ends with a non-blank answer for every question of the current quiz.
AnswersFollowQuiz ==
  /\ [](DOMAIN userAnswers \subseteq QuestionIndices)
  /\ [][quiz' # quiz => userAnswers' = EmptyAnswers]_vars
  /\ [][(step # "results" /\ step' = "results") => EveryQuestionAnswered']_vars

\* the results of a two-question quiz are shown, both questions answered
AnsweredQuizSubmitted ==
  /\ last.op = "handleSubmitQuiz"
  /\ step = "results"
  /\ ~IsNull(quiz)
  /\ DOMAIN userAnswers = {0, 1}

\* a call the loading step waits for (page-count probe of handleFileProcessed,
\* extraction, generation) or the delayed step change after its success is outstanding
LoadingCallPending ==
  \E t \in TaskSet : t.k \in {"appProbe", "extract", "generate", "timer"}

\* C23: the flow never remains in 'loading' after the call it waits for has resolved or
\* rejected: whenever step is 'loading' one of these calls, or the delayed step change
\* that follows its success, is still outstanding.
LoadingAlwaysLeft == step = "loading" => LoadingCallPending

\* the number of extraction and generation calls that have not settled
CallsInFlight == SumCounts(tasks, {t \in DOMAIN tasks : t.k \in {"extract", "generate"}})

\* C24: at most one extraction or generation call is in flight at any time.
SingleCallInFlight == CallsInFlight <= 1

\* the questions of the first shape, in the stated order, that a parsed payload matches
FirstMatchingShape(parsed) ==
  LET candidatePayload == IF isRecord(Get(parsed, "quiz")) THEN Get(parsed, "quiz") ELSE parsed
      dataPayload == Get(parsed, "data")
  IN IF isRecord(parsed) /\ isArray(Get(candidatePayload, "questions"))
       THEN Get(candidatePayload, "questions").a
     ELSE IF isArray(Get(parsed, "quiz")) THEN Get(parsed, "quiz").a
     ELSE IF isArray(Get(Get(dataPayload, "quiz"), "questions"))
       THEN Get(Get(dataPayload, "quiz"), "questions").a
     ELSE IF isArray(Get(dataPayload, "questions")) THEN Get(dataPayload, "questions").a
     ELSE IF isArray(dataPayload) THEN dataPayload.a
     ELSE IF isArray(parsed) THEN parsed.a
     ELSE <<>>

\* C25: when the JSON payload of a completion matches several accepted shapes the
\* questions come from the first matching one: title and questions at top level or
\* under quiz, quiz as an array, data.quiz.questions, data.questions, data as an array,
\* the payload as an array; questions under data never replace those found before.
FirstShapeWins ==
  \A t \in TaskSet : t.k = "generate" =>
    \A parsed \in OverlappingPayloads :
      /\ JsonQuestionList(BareRaw(JsonOf(parsed))) = FirstMatchingShape(parsed)
      /\ LET quizOf == tryParseJsonQuiz(BareRaw(JsonOf(parsed)), Val(t.options))
         IN ~IsNull(quizOf)
              /\ Val(quizOf).questions
                   = MapQuestions(FirstMatchingShape(parsed), getRequestedQuizType(Val(t.options)))

\* the option lines found in a text block
OptionLinesOf(block) ==
  ScanLines(Tail(block), [answer |-> <<>>, explanation |-> <<>>, optionsList |-> <<>>]).optionsList

\* C26: on the text-block path with requested type TrueFalse every block that yields a
\* question and has no option line yields one whose options list is ["True", "False"].
TrueFalseOptionsSynthesized ==
  \A t \in TaskSet :
    (t.k = "generate" /\ getRequestedQuizType(Val(t.options)) = TrueFalse) =>
      \A c \in Completions :
        IsNull(tryParseJsonQuiz(c, Val(t.options))) =>
          \A block \in {SplitBlocks(c.lines, <<>>)[i] :
                          i \in 1..Len(SplitBlocks(c.lines, <<>>))} :
            (OptionLinesOf(block) = <<>> /\ ~IsNull(ParseBlock(block, TrueFalse)))
              => /\ Val(ParseBlock(block, TrueFalse)).optionsDefined
                 /\ Val(ParseBlock(block, TrueFalse)).options = <<sTrue, sFalse>>

\* C27: in every reachable state step = 'options' implies extractedText is not null, and
\* step in {'quiz', 'results'} implies quiz is not null with at least one question and
\* extractedText is not null.
StepStateConsistent ==
  /\ step = "options" => ~IsNull(extractedText)
  /\ step \in {"quiz", "results"}
       => /\ ~IsNull(quiz)
          /\ Len(Val(quiz).questions) >= 1
          /\ ~IsNull(extractedText)

\* C28: every generation request carries non-empty source text, and submitting quiz
\* options while extractedText is the empty string changes nothing: no request is
\* sent, step stays 'options', error stays null, currentQuizOptions is not updated.
EmptyTextSendsNothing ==
  /\ [](\A t \in TaskSet : t.k = "generate" => t.text # <<>>)
  /\ [][\A options \in QuizOptionsValues :
          (extractedText = Some(<<>>) /\ handleQuizGenerate(options))
            => /\ UNCHANGED <<step, error, extractedText, quiz, userAnswers,
                              currentQuizOptions, subjectType, tasks>>
               /\ step = "options"
               /\ IsNull(error)]_vars

\* quiz options were submitted on the options step reached with empty extracted text
EmptyTextOptionsSubmitted ==
  /\ last.op = "handleQuizGenerate"
  /\ step = "options"
  /\ extractedText = Some(<<>>)
  /\ IsNull(error)
  /\ IsNull(currentQuizOptions)

\* the question type a quizType tag of the request denotes
TypeOfTag(tag) ==
  CASE tag = "mcq" -> MultipleChoice
    [] tag = "true_false" -> TrueFalse
    [] tag = "open" -> Open

\* C29: for the QuizOptions value of every generation request the quiz-type tag that
\* mapQuizType sends denotes the fallback type getRequestedQuizType gives the normalizer.
RequestTagMatchesFallbackType ==
  \A t \in TaskSet : t.k = "generate" =>
    TypeOfTag(mapQuizType(Val(t.options))) = getRequestedQuizType(Val(t.options))

\* the positions of an options list that hold the string s
PositionsOf(options, s) == {k \in 1..Len(options) : options[k] = s}

\* C30: for every raw question that resolves to MultipleChoice with a non-empty options
\* list and whose raw answer is a string equal, once trimmed, to one of the options,
\* normalizeAnswer returns that option, and it is the answer of the question built.
ListedAnswerKept ==
  \A t \in TaskSet : t.k = "generate" =>
    \A c \in Completions :
      LET fallbackType == getRequestedQuizType(Val(t.options))
          rawQuestions == JsonQuestionList(c)
      IN \A i \in 1..Len(rawQuestions) :
           LET rawAnswer == CoalesceKeys(rawQuestions[i],
                              <<"answer", "correctAnswer", "correct", "solution", "key">>)
               options == normalizeOptions(CoalesceKeys(rawQuestions[i],
                            <<"options", "choices", "answers", "optionsList">>))
               mapped == mapJsonQuestionToQuestion(rawQuestions[i], fallbackType)
           IN (/\ isRecord(rawQuestions[i])
               /\ QuestionTypeOf(rawQuestions[i], fallbackType) = MultipleChoice
               /\ Len(options) > 0
               /\ rawAnswer.t = "str"
               /\ PositionsOf(options, Trim(rawAnswer.s)) # {})
                => /\ normalizeAnswer(rawAnswer, MultipleChoice, Some(options))
                        = Trim(rawAnswer.s)
                   /\ ~IsNull(mapped) => Val(mapped).answer = Trim(rawAnswer.s)

====
